---- MODULE Spec2Model ----
(***************************************************************************)
(* webChat: a REST message store (services/backend/src/index.js), a        *)
(* WebSocket broadcast hub (the ws gateway, src/unnamed/part_000) and the  *)
(* React client that posts a message and then relays it over the hub       *)
(* (services/frontend/src/App.jsx).                                        *)
(*                                                                         *)
(* Every await of the backend is a separate step: the MongoDB operation    *)
(* takes effect at the database in that step, and other handlers' steps    *)
(* may run before the awaiting handler resumes.  The hub's handlers are    *)
(* synchronous JavaScript: each runs to completion as one step.            *)
(***************************************************************************)
EXTENDS Naturals, Integers, Sequences, FiniteSets, TLC

(***************************************************************************)
(* Bounds of the model.                                                    *)
(***************************************************************************)
NumHandlers == 2        \* POST /api/messages requests that can be in flight at once
MaxPosts == 4           \* POST /api/messages requests over a behaviour
MaxClock == 1           \* the backend's clock runs over 0..MaxClock milliseconds
MaxRand == 2            \* distinct values of generateId's random suffix
NumConns == 3           \* WebSocket connections the hub accepts over a behaviour
MaxFrames == 2          \* 'message' events the hub handles over a behaviour
NumClients == 2         \* frontends
MaxSends == 3           \* handleSend calls of the frontends over a behaviour
MaxSerialPosts == 3     \* POST /api/messages requests of a caller that sends one at a time
MaxLiveSends == 1       \* handleSend calls while a frontend is followed from its mount

(***************************************************************************)
(* Program constants.  MAX_MESSAGES is read from process.env.MAX_MESSAGES  *)
(* (index.js:6); the model runs the service configured with the value 2.   *)
(***************************************************************************)
MAX_MESSAGES == 2
UserMax == 50
TextMax == 500

Handlers == 1..NumHandlers
Conns == 1..NumConns

Range(f) == {f[i] : i \in DOMAIN f}

(***************************************************************************)
(* JavaScript values of the request body's fields: a string is a sequence  *)
(* of code units, a missing field is undefined.                            *)
(***************************************************************************)
Undefined == [t |-> "undefined"]
Str(s) == [t |-> "string", v |-> s]

BodyUsers == {Undefined, Str(<<>>), Str(<<"a">>)}
BodyTexts == {Undefined, Str(<<>>), Str(<<"h", "i">>)}

\* !x of index.js:51 for the values above: undefined and "" are falsy.
Falsy(x) == x.t = "undefined" \/ (x.t = "string" /\ Len(x.v) = 0)

Min(a, b) == IF a <= b THEN a ELSE b

\* A slice that keeps the code unit at index n as well.
SliceInclusive(x, n) == SubSeq(x.v, 1, Min(n + 1, Len(x.v)))

\* String(x).slice(0, n) for a string x.
Slice(x, n) == SubSeq(x.v, 1, Min(n, Len(x.v)))

NoMessage == [id |-> <<>>]
NoRequest == [user |-> Undefined, text |-> Undefined]

\* A string of n code units.
Long(n) == [i \in 1..n |-> IF i = n THEN "z" ELSE "x"]

\* Bodies with blank and with overlong fields.
SerialUsers == {Undefined, Str(<<>>), Str(<<" ">>), Str(Long(UserMax + 1))}
SerialTexts == {Undefined, Str(<<>>), Str(<<"h", "i">>), Str(Long(TextMax + 1))}

VARIABLES
  now,            \* the backend's clock (ms) when a handler last read it
  collection,     \* the documents of messagesCollection
  pc,             \* pc[h]: where POST handler h stands
  request,        \* request[h]: user and text of req.body
  message,        \* message[h]: the handler's const message
  total,          \* total[h]: trimMessages' const total
  ids,            \* ids[h]: trimMessages' const ids
  posts,          \* number of POST requests received
  accepted,       \* history: the documents inserted, in insertion order
  storageFailed,  \* history: some storage operation has thrown
  cleared         \* history: DELETE /api/messages has run

storeVars == <<now, collection, pc, request, message, total, ids, posts,
               accepted, storageFailed, cleared>>

StoreInit ==
  /\ now = 0
  /\ collection = {}
  /\ pc = [h \in Handlers |-> "idle"]
  /\ request = [h \in Handlers |-> NoRequest]
  /\ message = [h \in Handlers |-> NoMessage]
  /\ total = [h \in Handlers |-> 0]
  /\ ids = [h \in Handlers |-> {}]
  /\ posts = 0
  /\ accepted = <<>>
  /\ storageFailed = FALSE
  /\ cleared = FALSE

\* generateId: Date.now() in base 36, a dash, six random base-36 digits; t is
\* the clock's value, rnd the random suffix.
generateId(t, rnd) == <<t, rnd>>

\* The handler has answered: its locals are gone.
Finish(h) ==
  /\ pc' = [pc EXCEPT ![h] = "idle"]
  /\ request' = [request EXCEPT ![h] = NoRequest]
  /\ message' = [message EXCEPT ![h] = NoMessage]
  /\ total' = [total EXCEPT ![h] = 0]
  /\ ids' = [ids EXCEPT ![h] = {}]

\* POST /api/messages with a missing or empty user or text: 400.
PostReject(h, user, text) ==
  /\ pc[h] = "idle"
  /\ posts < MaxPosts
  /\ Falsy(user) \/ Falsy(text)
  /\ posts' = posts + 1
  /\ Finish(h)
  /\ UNCHANGED <<now, collection, accepted, storageFailed, cleared>>

\* POST /api/messages, up to the call of insertOne.  The handler reads the
\* clock twice: Date.now() in generateId, then new Date() for the timestamp.
\* The clock has stood still or moved on since it was last read (dt), and
\* again between the two reads (lag).
PostAccept(h, user, text, rnd, dt, lag) ==
  /\ pc[h] = "idle"
  /\ posts < MaxPosts
  /\ ~(Falsy(user) \/ Falsy(text))
  /\ now + dt + lag <= MaxClock
  /\ now' = now + dt + lag
  /\ posts' = posts + 1
  /\ request' = [request EXCEPT ![h] = [user |-> user, text |-> text]]
  /\ message' = [message EXCEPT ![h] =
                   [id |-> generateId(now + dt, rnd),
                    user |-> Slice(user, UserMax),
                    text |-> Slice(text, TextMax),
                    timestamp |-> now + dt + lag]]
  /\ pc' = [pc EXCEPT ![h] = "insertOne"]
  /\ UNCHANGED <<collection, total, ids, accepted, storageFailed, cleared>>

\* handleError: 500.
handleError(h) ==
  /\ Finish(h)
  /\ storageFailed' = TRUE

\* insertOne({_id: message.id, ...message}) at the database; a document with
\* the same _id makes it throw a duplicate key error.
InsertOne(h) ==
  /\ pc[h] = "insertOne"
  /\ IF \E d \in collection : d.id = message[h].id
       THEN /\ handleError(h)
            /\ UNCHANGED <<now, collection, posts, accepted, cleared>>
       ELSE /\ collection' = collection \cup {message[h]}
            /\ accepted' = Append(accepted, message[h])
            /\ pc' = [pc EXCEPT ![h] = "countDocuments"]
            /\ UNCHANGED <<now, request, message, total, ids, posts,
                           storageFailed, cleared>>

\* trimMessages: total = await collection.countDocuments(); total <= MAX_MESSAGES
\* returns.
TrimReturns(t) == t <= MAX_MESSAGES

CountDocuments(h) ==
  /\ pc[h] = "countDocuments"
  /\ total' = [total EXCEPT ![h] = Cardinality(collection)]
  /\ pc' = [pc EXCEPT ![h] = IF TrimReturns(Cardinality(collection))
                               THEN "respond" ELSE "findOldest"]
  /\ UNCHANGED <<now, collection, request, message, ids, posts, accepted,
                 storageFailed, cleared>>

\* A trim that leaves one document too many.
ExcessOffByOne(t) == t - MAX_MESSAGES - 1

\* trimMessages: excess = total - MAX_MESSAGES.
Excess(t) == t - MAX_MESSAGES

\* find({}).sort({timestamp: 1}).limit(n): the n documents of docs with the
\* smallest timestamps (all of docs when it has fewer); MongoDB leaves the order
\* of equal timestamps open, so any such set can be the result.
OldestSets(docs, n) ==
  {S \in SUBSET docs :
     /\ Cardinality(S) = Min(n, Cardinality(docs))
     /\ \A x \in S, y \in docs \ S : x.timestamp <= y.timestamp}

\* trimMessages: oldest = await find...; ids = oldest.map(doc => doc._id);
\* an empty ids returns.
FindOldest(h) ==
  /\ pc[h] = "findOldest"
  /\ \E S \in OldestSets(collection, Excess(total[h])) :
       /\ ids' = [ids EXCEPT ![h] = {d.id : d \in S}]
       /\ pc' = [pc EXCEPT ![h] = IF S = {} THEN "respond" ELSE "deleteMany"]
  /\ UNCHANGED <<now, collection, request, message, total, posts, accepted,
                 storageFailed, cleared>>

\* trimMessages: deleteMany({_id: {$in: ids}}) at the database.
DeleteMany(h) ==
  /\ pc[h] = "deleteMany"
  /\ collection' = {d \in collection : d.id \notin ids[h]}
  /\ pc' = [pc EXCEPT ![h] = "respond"]
  /\ UNCHANGED <<now, request, message, total, ids, posts, accepted,
                 storageFailed, cleared>>

\* res.status(201).json(message).
Respond201(h) ==
  /\ pc[h] = "respond"
  /\ Finish(h)
  /\ UNCHANGED <<now, collection, posts, accepted, storageFailed, cleared>>

\* A storage operation of the handler throws (the database is unreachable):
\* the catch block answers 500.
StorageError(h) ==
  /\ pc[h] \in {"insertOne", "countDocuments", "findOldest", "deleteMany"}
  /\ handleError(h)
  /\ UNCHANGED <<now, collection, posts, accepted, cleared>>

\* DELETE /api/messages: deleteMany({}) at the database, then 204.
ClearMessages ==
  /\ collection' = {}
  /\ cleared' = TRUE
  /\ UNCHANGED <<now, pc, request, message, total, ids, posts, accepted,
                 storageFailed>>

\* DELETE /api/messages whose deleteMany throws: the catch block answers 500
\* through handleError.
ClearFails ==
  /\ storageFailed' = TRUE
  /\ UNCHANGED <<now, collection, pc, request, message, total, ids, posts,
                 accepted, cleared>>

\* mapMessage(doc): the document without its _id.
mapMessage(doc) ==
  [id |-> doc.id, user |-> doc.user, text |-> doc.text, timestamp |-> doc.timestamp]

\* A result that is left in the order of the sort.
ReverseNot(s) == s

\* docs.reverse().
Reverse(s) == [i \in 1..Len(s) |-> s[Len(s) + 1 - i]]

\* find({}).sort({timestamp: -1}): the documents, latest timestamp first;
\* MongoDB leaves the order of equal timestamps open, so any such sequence can
\* be the result.
SortDescending(docs) ==
  {s \in [1..Cardinality(docs) -> docs] :
     /\ \A i, j \in DOMAIN s : i # j => s[i] # s[j]
     /\ \A i, j \in DOMAIN s : i < j => s[i].timestamp >= s[j].timestamp}

\* .limit(n).
Limit(s, n) == SubSeq(s, 1, Min(n, Len(s)))

\* GET /api/messages: the bodies (messages) it can answer with when the
\* collection holds docs.
GetMessages(docs) ==
  {[i \in DOMAIN r |-> mapMessage(r[i])] :
     r \in {Reverse(Limit(s, MAX_MESSAGES)) : s \in SortDescending(docs)}}

(***************************************************************************)
(* The WebSocket hub.                                                      *)
(*                                                                         *)
(* A frame on the wire is a text.  JSON.parse turns a well-formed text     *)
(* into a value and throws on any other; JSON.stringify writes a value     *)
(* without insignificant whitespace, so a text with such whitespace does   *)
(* not survive parse-then-stringify although its value does.               *)
(***************************************************************************)
Null == [t |-> "null"]
Frame(type, payload) == [t |-> "object", type |-> type, payload |-> payload]
Notice(text) == [t |-> "object", message |-> Str(<<text>>)]

ChatType == Str(<<"chat-message">>)
ErrorType == Str(<<"error">>)
SystemType == Str(<<"system-message">>)

Text(v) == [wellFormed |-> TRUE, spaced |-> FALSE, value |-> v]
SpacedText(v) == [wellFormed |-> TRUE, spaced |-> TRUE, value |-> v]
NotJson == [wellFormed |-> FALSE, spaced |-> FALSE, value |-> Undefined]

JSONparse(text) ==
  IF text.wellFormed THEN [ok |-> TRUE, value |-> text.value] ELSE [ok |-> FALSE]

JSONstringify(v) == Text(v)

\* typeof v.
typeof(v) ==
  CASE v.t \in {"object", "null", "array"} -> "object"
    [] OTHER -> v.t

\* parsed?.type and parsed.payload: undefined unless parsed is an object with
\* the property.
GetType(v) == IF v.t = "object" /\ "type" \in DOMAIN v THEN v.type ELSE Undefined
GetPayload(v) ==
  IF v.t = "object" /\ "payload" \in DOMAIN v THEN v.payload ELSE Undefined

\* Payloads and frames that clients of the hub send.
ValidPayload == [t |-> "object", user |-> Str(<<"a">>), text |-> Str(<<"h", "i">>)]
EmptyPayload == [t |-> "object", user |-> Str(<<>>), text |-> Str(<<>>)]

EnvFrames ==
  { NotJson,
    Text(Null),
    Text(Frame(Str(<<"ping">>), Undefined)),
    Text(Frame(ChatType, Undefined)),
    Text(Frame(ChatType, Str(<<"h", "i">>))),
    Text(Frame(ChatType, Null)),
    Text(Frame(ChatType, EmptyPayload)),
    Text(Frame(ChatType, ValidPayload)),
    SpacedText(Frame(ChatType, ValidPayload)) }

\* An add that appends without looking for the member (Array.prototype.push).
SetAddPush(set, x) == Append(set, x)

\* A Set keeps its members in insertion order.
SetAdd(set, x) == IF x \in Range(set) THEN set ELSE Append(set, x)

\* Removal that takes the last member when x is absent (splice(indexOf(x), 1)).
SetDeleteSplice(set, x) ==
  IF x \in Range(set)
    THEN SelectSeq(set, LAMBDA y : y # x)
    ELSE SubSeq(set, 1, Len(set) - 1)

SetDelete(set, x) == SelectSeq(set, LAMBDA y : y # x)

\* A send that puts the text ahead of what was written before.
sendAhead(inb, socket, data, cause) ==
  [inb EXCEPT ![socket] = <<[data |-> data, ev |-> cause.ev,
                             from |-> cause.from, raw |-> cause.raw]>> \o @]

\* socket.send(data): the text is written to the connection.  ev, from and raw
\* are history: the number of the 'message' event that caused the send (the
\* events so far, for the welcome), the connection the event came from and,
\* for a relayed frame, the text the event carried (NotJson otherwise).
send(inb, socket, data, cause) ==
  [inb EXCEPT ![socket] = Append(@, [data |-> data, ev |-> cause.ev,
                                      from |-> cause.from, raw |-> cause.raw])]

\* A broadcast that gives up at the first client that is not open.
RECURSIVE broadcastUntilClosed(_, _, _, _, _)
broadcastUntilClosed(cl, rs, inb, data, cause) ==
  IF cl = <<>> \/ rs[Head(cl)] # "OPEN"
    THEN inb
    ELSE broadcastUntilClosed(Tail(cl), rs, send(inb, Head(cl), data, cause),
                              data, cause)

\* A broadcast that does not look at readyState.
RECURSIVE broadcastUnguarded(_, _, _, _, _)
broadcastUnguarded(cl, rs, inb, data, cause) ==
  IF cl = <<>>
    THEN inb
    ELSE broadcastUnguarded(Tail(cl), rs, send(inb, Head(cl), data, cause),
                            data, cause)

\* broadcast(message): for (const client of clients) if (client.readyState ===
\* WebSocket.OPEN) client.send(message).  cl is what is left of clients, rs the
\* sockets' readyState.
RECURSIVE broadcast(_, _, _, _, _)
broadcast(cl, rs, inb, data, cause) ==
  IF cl = <<>>
    THEN inb
    ELSE broadcast(Tail(cl), rs,
                   IF rs[Head(cl)] = "OPEN"
                     THEN send(inb, Head(cl), data, cause)
                     ELSE inb,
                   data, cause)

\* A safeSend that writes the frame twice.
safeSendTwice(rs, inb, socket, value, cause) ==
  IF rs[socket] = "OPEN"
    THEN send(send(inb, socket, JSONstringify(value), cause),
              socket, JSONstringify(value), cause)
    ELSE inb

\* safeSend(socket, message).
safeSend(rs, inb, socket, value, cause) ==
  IF rs[socket] = "OPEN" THEN send(inb, socket, JSONstringify(value), cause) ELSE inb

VARIABLES
  readyState,     \* readyState[c] of the hub's socket c ("NONE": not yet accepted)
  clients,        \* the Set clients, in insertion order
  inbox,          \* inbox[c]: what the hub has sent on socket c, in order
  handled,        \* number of 'message' events the hub has handled
  deleteCalls,    \* history: deleteCalls[c], the calls of clients.delete(c)
  joinedAt,       \* history: joinedAt[c], the value of handled when c was added
  relays,         \* history: number of calls of broadcast
  received,       \* history: socket and raw of the latest 'message' event
  wire            \* wire[c]: the frontend's frames on c the hub has yet to read

hubVars == <<readyState, clients, inbox, handled, deleteCalls, joinedAt, relays,
             received, wire>>

HubInit ==
  /\ readyState = [c \in Conns |-> "NONE"]
  /\ clients = <<>>
  /\ inbox = [c \in Conns |-> <<>>]
  /\ handled = 0
  /\ deleteCalls = [c \in Conns |-> 0]
  /\ joinedAt = [c \in Conns |-> 0]
  /\ relays = 0
  /\ received = [socket |-> 0, raw |-> NotJson]
  /\ wire = [c \in Conns |-> <<>>]

\* A 'connection' handler that greets every client.
ConnectionGreetingAll(c) ==
  /\ readyState[c] = "NONE"
  /\ readyState' = [readyState EXCEPT ![c] = "OPEN"]
  /\ clients' = SetAdd(clients, c)
  /\ joinedAt' = [joinedAt EXCEPT ![c] = handled]
  /\ inbox' = broadcast(clients', readyState', inbox,
                        JSONstringify(Frame(SystemType,
                                            Notice("Connected to the chat gateway."))),
                        [ev |-> handled, from |-> c, raw |-> NotJson])
  /\ UNCHANGED <<handled, deleteCalls, relays, received>>

\* server.on('connection'): the socket is open; it is added to clients and
\* greeted.
Connection(c) ==
  /\ readyState[c] = "NONE"
  /\ readyState' = [readyState EXCEPT ![c] = "OPEN"]
  /\ clients' = SetAdd(clients, c)
  /\ joinedAt' = [joinedAt EXCEPT ![c] = handled]
  /\ inbox' = safeSend(readyState', inbox, c,
                       Frame(SystemType, Notice("Connected to the chat gateway.")),
                       [ev |-> handled, from |-> c, raw |-> NotJson])
  /\ UNCHANGED <<handled, deleteCalls, relays, received>>

\* A 'message' handler that relays to the other clients only.
OnMessageToOthers(c, raw) ==
  /\ readyState[c] = "OPEN"
  /\ handled < MaxFrames
  /\ handled' = handled + 1
  /\ received' = [socket |-> c, raw |-> raw]
  /\ LET parsed == JSONparse(raw)
         notice == [ev |-> handled + 1, from |-> c, raw |-> NotJson]
         relay == [ev |-> handled + 1, from |-> c, raw |-> raw]
         relayed == parsed.ok /\ GetType(parsed.value) = ChatType
                      /\ typeof(GetPayload(parsed.value)) = "object"
     IN  /\ relays' = IF relayed THEN relays + 1 ELSE relays
         /\ inbox' =
           IF ~parsed.ok
             THEN safeSend(readyState, inbox, c,
                           Frame(ErrorType, Notice("Messages must be valid JSON.")),
                           notice)
           ELSE IF \/ GetType(parsed.value) # ChatType
                   \/ typeof(GetPayload(parsed.value)) # "object"
             THEN safeSend(readyState, inbox, c,
                           Frame(ErrorType, Notice("Unsupported message format.")),
                           notice)
           ELSE broadcast(SetDelete(clients, c), readyState, inbox,
                          JSONstringify(Frame(ChatType, GetPayload(parsed.value))),
                          relay)
  /\ UNCHANGED <<readyState, clients, deleteCalls, joinedAt>>

\* socket.on('message'): raw is the text received on socket c.  ws emits
\* 'message' on a socket only while it is open.
OnMessage(c, raw) ==
  /\ readyState[c] = "OPEN"
  /\ handled < MaxFrames
  /\ handled' = handled + 1
  /\ received' = [socket |-> c, raw |-> raw]
  /\ LET parsed == JSONparse(raw)
         notice == [ev |-> handled + 1, from |-> c, raw |-> NotJson]
         relay == [ev |-> handled + 1, from |-> c, raw |-> raw]
         relayed == parsed.ok /\ GetType(parsed.value) = ChatType
                      /\ typeof(GetPayload(parsed.value)) = "object"
     IN  /\ relays' = IF relayed THEN relays + 1 ELSE relays
         /\ inbox' =
           IF ~parsed.ok
             THEN safeSend(readyState, inbox, c,
                           Frame(ErrorType, Notice("Messages must be valid JSON.")),
                           notice)
           ELSE IF \/ GetType(parsed.value) # ChatType
                   \/ typeof(GetPayload(parsed.value)) # "object"
             THEN safeSend(readyState, inbox, c,
                           Frame(ErrorType, Notice("Unsupported message format.")),
                           notice)
           ELSE broadcast(clients, readyState, inbox,
                          JSONstringify(Frame(ChatType, GetPayload(parsed.value))),
                          relay)
  /\ UNCHANGED <<readyState, clients, deleteCalls, joinedAt>>

\* The peer's close frame arrives or the TCP connection ends: ws sets the
\* socket's readyState to CLOSING and emits 'close' only later.
BeginClose(c) ==
  /\ readyState[c] = "OPEN"
  /\ readyState' = [readyState EXCEPT ![c] = "CLOSING"]
  /\ UNCHANGED <<clients, inbox, handled, deleteCalls, joinedAt, relays,
                 received, wire>>

\* socket.on('error'): ws starts closing the socket and emits 'error'.
OnError(c) ==
  /\ readyState[c] = "OPEN"
  /\ readyState' = [readyState EXCEPT ![c] = "CLOSING"]
  /\ clients' = SetDelete(clients, c)
  /\ deleteCalls' = [deleteCalls EXCEPT ![c] = @ + 1]
  /\ UNCHANGED <<inbox, handled, joinedAt, relays, received, wire>>

\* A 'close' handler that forgets the socket's membership.
OnCloseKeeping(c) ==
  /\ readyState[c] = "CLOSING"
  /\ readyState' = [readyState EXCEPT ![c] = "CLOSED"]
  /\ deleteCalls' = [deleteCalls EXCEPT ![c] = @ + 1]
  /\ UNCHANGED <<clients, inbox, handled, joinedAt, relays, received, wire>>

\* socket.on('close'): ws sets readyState to CLOSED and emits 'close'.
OnClose(c) ==
  /\ readyState[c] = "CLOSING"
  /\ readyState' = [readyState EXCEPT ![c] = "CLOSED"]
  /\ clients' = SetDelete(clients, c)
  /\ deleteCalls' = [deleteCalls EXCEPT ![c] = @ + 1]
  /\ UNCHANGED <<inbox, handled, joinedAt, relays, received, wire>>

(***************************************************************************)
(* The frontend (App.jsx).  Client i posts through the backend's handler   *)
(* i and holds the WebSocket whose other end is the hub's socket i.        *)
(***************************************************************************)
Clients == 1..NumClients

IsSpace(ch) == ch = " "

\* String.prototype.trim.
RECURSIVE TrimStart(_)
TrimStart(s) == IF s # <<>> /\ IsSpace(Head(s)) THEN TrimStart(Tail(s)) ELSE s

RECURSIVE TrimEnd(_)
TrimEnd(s) ==
  IF s # <<>> /\ IsSpace(s[Len(s)]) THEN TrimEnd(SubSeq(s, 1, Len(s) - 1)) ELSE s

Trim(s) == TrimStart(TrimEnd(s))

Anonymous == <<"A", "n", "o", "n", "y", "m", "o", "u", "s">>

\* What the user types into the compose box and the display name field.
Values == {<<" ">>, <<"h", "i", " ">>}
DisplayNames == {<<>>, <<" ">>}

\* handleSend's payload: user is (displayName || 'Anonymous').trim().slice(0, 50),
\* text is trimmed.slice(0, 500).
SendUser(displayName) ==
  Str(Slice(Str(Trim(IF displayName = <<>> THEN Anonymous ELSE displayName)), UserMax))
SendText(value) == Str(Slice(Str(Trim(value)), TextMax))

\* The body of the 201 answer, res.json(message), as the client reads it.
Saved(m) ==
  [t |-> "object", id |-> m.id, user |-> Str(m.user), text |-> Str(m.text),
   timestamp |-> m.timestamp]

\* !!v for the values a frame's payload can have.
Truthy(v) == ~(v.t \in {"undefined", "null"} \/ (v.t = "string" /\ v.v = <<>>))

\* message?.id is truthy.
HasId(m) == m.t = "object" /\ "id" \in DOMAIN m /\ m.id # <<>>

\* appendMessage(existing, message).
appendMessage(existing, m) ==
  IF ~(m.t = "object" /\ "id" \in DOMAIN m /\ m.id # <<>>)
    THEN existing
  ELSE IF \E k \in DOMAIN existing : existing[k].id = m.id
    THEN existing
  ELSE Append(existing, m)

VARIABLES
  cpc,            \* cpc[i]: where client i's handleSend stands
  saved,          \* saved[i]: handleSend's const saved
  wsState,        \* wsState[i]: readyState of socketRef.current
  messages,       \* messages[i]: the messages state of App
  loadpc,         \* loadpc[i]: where loadMessages stands
  snapshot,       \* snapshot[i]: payload.messages of the GET answer on its way
  sock,           \* sock[i]: the hub's socket at the other end of socketRef.current
  read,           \* read[i]: frames of that socket the 'message' listener has had
  heard,          \* history: heard[i], ids of the chat messages the listener has had
  mounted         \* mounted[i]: App is mounted (ignore and isUnmounted are false)

liveVars == <<loadpc, snapshot, sock, read, heard, mounted>>

clientVars == <<cpc, saved, wsState, messages, liveVars>>

ClientInit ==
  /\ cpc = [i \in Clients |-> "idle"]
  /\ saved = [i \in Clients |-> Null]
  /\ wsState = [i \in Clients |-> "CONNECTING"]
  /\ messages = [i \in Clients |-> <<>>]
  /\ loadpc = [i \in Clients |-> "fetch"]
  /\ snapshot = [i \in Clients |-> <<>>]
  /\ sock = [i \in Clients |-> i]
  /\ read = [i \in Clients |-> 0]
  /\ heard = [i \in Clients |-> {}]
  /\ mounted = [i \in Clients |-> TRUE]

\* handleSend(value) up to the fetch of POST /api/messages, which the backend
\* takes up; an all-blank value returns at once.
HandleSend(i, value, displayName, rnd, dt, lag) ==
  /\ cpc[i] = "idle"
  /\ Trim(value) # <<>>
  /\ posts < MaxSends
  /\ PostAccept(i, SendUser(displayName), SendText(value), rnd, dt, lag)
  /\ cpc' = [cpc EXCEPT ![i] = "posting"]
  /\ UNCHANGED <<saved, wsState, messages, liveVars, hubVars>>

\* handleSend(value) whose POST is answered 400: response.ok is false, the
\* catch block sets the error banner.
HandleSendRejected(i, value, displayName) ==
  /\ cpc[i] = "idle"
  /\ Trim(value) # <<>>
  /\ posts < MaxSends
  /\ PostReject(i, SendUser(displayName), SendText(value))
  /\ UNCHANGED <<clientVars, hubVars>>

\* A step of the backend's handler for client i's POST; when it answers 500
\* handleSend's catch block ends the send.
Awaiting(i) ==
  /\ cpc[i] = "posting"
  /\ cpc' = [cpc EXCEPT ![i] = IF pc'[i] = "idle" THEN "idle" ELSE @]
  /\ UNCHANGED <<saved, wsState, messages, liveVars, hubVars>>

\* The 201 answer reaches handleSend: saved = await response.json().
Reply(i) ==
  /\ cpc[i] = "posting"
  /\ Respond201(i)
  /\ saved' = [saved EXCEPT ![i] = Saved(message[i])]
  /\ cpc' = [cpc EXCEPT ![i] = "replied"]
  /\ UNCHANGED <<wsState, messages, liveVars, hubVars>>

\* handleSend after the answer: the saved message goes out on the socket when
\* it is open and into the own list otherwise.  React drops the update that
\* setMessages is given once App has unmounted.
SocketSend(i) ==
  /\ cpc[i] = "replied"
  /\ IF wsState[i] = "OPEN"
       THEN /\ wire' = [wire EXCEPT ![sock[i]] =
                          Append(@, JSONstringify(Frame(ChatType, saved[i])))]
            /\ UNCHANGED messages
       ELSE /\ messages' = [messages EXCEPT ![i] =
                              IF mounted[i] THEN appendMessage(@, saved[i]) ELSE @]
            /\ UNCHANGED wire
  /\ cpc' = [cpc EXCEPT ![i] = "idle"]
  /\ saved' = [saved EXCEPT ![i] = Null]
  /\ UNCHANGED <<wsState, liveVars, storeVars, readyState, clients, inbox,
                 handled, deleteCalls, joinedAt, relays, received>>

\* The socket's 'open' event: the hub has accepted the connection.
ClientOpen(i) ==
  /\ wsState[i] = "CONNECTING"
  /\ readyState[sock[i]] # "NONE"
  /\ wsState' = [wsState EXCEPT ![i] = "OPEN"]
  /\ UNCHANGED <<cpc, saved, messages, liveVars, storeVars, hubVars>>

\* GET /api/messages for client i's loadMessages: the backend reads the
\* collection and answers.
LoadQuery(i) ==
  /\ loadpc[i] = "fetch"
  /\ \E r \in GetMessages(collection) :
       snapshot' = [snapshot EXCEPT ![i] = [k \in DOMAIN r |-> Saved(r[k])]]
  /\ loadpc' = [loadpc EXCEPT ![i] = "answer"]
  /\ UNCHANGED <<cpc, saved, wsState, messages, sock, read, heard, mounted,
                 storeVars, hubVars>>

\* loadMessages after the answer: setMessages(payload.messages), unless the
\* effect's cleanup has set ignore.
LoadApply(i) ==
  /\ loadpc[i] = "answer"
  /\ messages' = [messages EXCEPT ![i] = IF mounted[i] THEN snapshot[i] ELSE @]
  /\ snapshot' = [snapshot EXCEPT ![i] = <<>>]
  /\ loadpc' = [loadpc EXCEPT ![i] = "done"]
  /\ UNCHANGED <<cpc, saved, wsState, sock, read, heard, mounted, storeVars,
                 hubVars>>

\* The socket's 'message' listener on the next frame the hub has sent.
ClientMessage(i) ==
  /\ wsState[i] = "OPEN"
  /\ read[i] < Len(inbox[sock[i]])
  /\ read' = [read EXCEPT ![i] = @ + 1]
  /\ LET data == JSONparse(inbox[sock[i]][read[i] + 1].data)
         shown == data.ok /\ GetType(data.value) = ChatType
                    /\ Truthy(GetPayload(data.value))
     IN  /\ messages' = [messages EXCEPT ![i] =
                           IF shown THEN appendMessage(@, GetPayload(data.value))
                                    ELSE @]
         /\ heard' = [heard EXCEPT ![i] =
                        IF shown /\ HasId(GetPayload(data.value))
                          THEN @ \cup {GetPayload(data.value).id} ELSE @]
  /\ UNCHANGED <<cpc, saved, wsState, loadpc, snapshot, sock, mounted,
                 storeVars, hubVars>>

\* The readyState that close() leaves a browser's WebSocket in.
close(state) == IF state \in {"CONNECTING", "OPEN"} THEN "CLOSING" ELSE state

\* The 'error' listener: socket.close(), on the readyState the socket has when
\* the browser fires the event.
ClientError(state) == close(state)

\* Client i's socket is closed: the connection attempt has failed, the
\* connection is lost or a close() is through.  The browser sets readyState to
\* CLOSED, fires 'error' when it has failed the connection, and then fires
\* 'close', all in one task and once for a socket.  The 'close' listener sets
\* the reconnect timer while App is mounted.  Frames the 'message' listener has
\* not had are never read.
ClientClose(i) ==
  /\ wsState[i] # "CLOSED"
  /\ \E failed \in BOOLEAN :
       wsState' = [wsState EXCEPT ![i] =
                     IF failed THEN ClientError("CLOSED") ELSE "CLOSED"]
  /\ UNCHANGED <<cpc, saved, messages, liveVars, storeVars, hubVars>>

\* App unmounts: the effects' cleanups set ignore and isUnmounted, clear the
\* reconnect timer and close socketRef.current.
Unmount(i) ==
  /\ mounted[i]
  /\ mounted' = [mounted EXCEPT ![i] = FALSE]
  /\ wsState' = [wsState EXCEPT ![i] = close(@)]
  /\ UNCHANGED <<cpc, saved, messages, loadpc, snapshot, sock, read, heard,
                 storeVars, hubVars>>

\* The sockets the frontends have made with new WebSocket(WS_URL): those of
\* the first connections and those of the reconnects so far, which carry the
\* numbers above them in the order in which they are made.
Made == {c \in Conns : c \in Clients \/ \E i \in Clients : c <= sock[i]}

\* The reconnect timer, set by the 'close' listener and not cleared, fires:
\* connect() makes a new WebSocket, which replaces the one in socketRef.
Reconnect(i) ==
  /\ wsState[i] = "CLOSED"
  /\ mounted[i]
  /\ \E c \in Conns \ Made :
       /\ \A b \in Conns : b < c => b \in Made
       /\ sock' = [sock EXCEPT ![i] = c]
  /\ wsState' = [wsState EXCEPT ![i] = "CONNECTING"]
  /\ read' = [read EXCEPT ![i] = 0]
  /\ UNCHANGED <<cpc, saved, messages, loadpc, snapshot, heard, mounted,
                 storeVars, hubVars>>

\* The hub reads the next frame a frontend has sent on socket c.
HubReceive(c) ==
  /\ wire[c] # <<>>
  /\ OnMessage(c, Head(wire[c]))
  /\ wire' = [wire EXCEPT ![c] = Tail(@)]
  /\ UNCHANGED <<storeVars, clientVars>>

vars == <<storeVars, hubVars, clientVars>>

Init == StoreInit /\ HubInit /\ ClientInit

\* The frontends, the backend and the hub together, over a period in which no
\* socket closes and the database answers every operation.
Next ==
  \/ \E i \in Clients, value \in Values, displayName \in DisplayNames,
        rnd \in 1..MaxRand, dt \in 0..1, lag \in 0..1 :
       HandleSend(i, value, displayName, rnd, dt, lag)
  \/ \E i \in Clients, value \in Values, displayName \in DisplayNames :
       HandleSendRejected(i, value, displayName)
  \/ \E i \in Clients : InsertOne(i) /\ Awaiting(i)
  \/ \E i \in Clients : CountDocuments(i) /\ Awaiting(i)
  \/ \E i \in Clients : FindOldest(i) /\ Awaiting(i)
  \/ \E i \in Clients : DeleteMany(i) /\ Awaiting(i)
  \/ \E i \in Clients : Reply(i)
  \/ \E i \in Clients : SocketSend(i)
  \/ \E i \in Clients : ClientOpen(i)
  \/ \E c \in Clients : Connection(c) /\ UNCHANGED <<wire, storeVars, clientVars>>
  \/ \E c \in Clients : HubReceive(c)

Spec == Init /\ [][Next]_vars

\* The store with callers that post arbitrary bodies.
StoreNext ==
  \/ \E h \in Handlers, user \in BodyUsers, text \in BodyTexts :
       PostReject(h, user, text) /\ UNCHANGED <<hubVars, clientVars>>
  \/ \E h \in Handlers, user \in BodyUsers, text \in BodyTexts,
        rnd \in 1..MaxRand, dt \in 0..1, lag \in 0..1 :
       PostAccept(h, user, text, rnd, dt, lag) /\ UNCHANGED <<hubVars, clientVars>>
  \/ \E h \in Handlers : InsertOne(h) /\ UNCHANGED <<hubVars, clientVars>>
  \/ \E h \in Handlers : CountDocuments(h) /\ UNCHANGED <<hubVars, clientVars>>
  \/ \E h \in Handlers : FindOldest(h) /\ UNCHANGED <<hubVars, clientVars>>
  \/ \E h \in Handlers : DeleteMany(h) /\ UNCHANGED <<hubVars, clientVars>>
  \/ \E h \in Handlers : Respond201(h) /\ UNCHANGED <<hubVars, clientVars>>
  \/ \E h \in Handlers : StorageError(h) /\ UNCHANGED <<hubVars, clientVars>>
  \/ ClearMessages /\ UNCHANGED <<hubVars, clientVars>>
  \/ ClearFails /\ UNCHANGED <<hubVars, clientVars>>

\* The hub with clients that send it arbitrary frames.  The sockets carry the
\* numbers of the order in which the hub accepts them.
HubNext ==
  \/ \E c \in Conns :
       /\ \A b \in Conns : b < c => readyState[b] # "NONE"
       /\ Connection(c)
       /\ UNCHANGED <<wire, storeVars, clientVars>>
  \/ \E c \in Conns, raw \in EnvFrames :
       OnMessage(c, raw) /\ UNCHANGED <<wire, storeVars, clientVars>>
  \/ \E c \in Conns : BeginClose(c) /\ UNCHANGED <<storeVars, clientVars>>
  \/ \E c \in Conns : OnError(c) /\ UNCHANGED <<storeVars, clientVars>>
  \/ \E c \in Conns : OnClose(c) /\ UNCHANGED <<storeVars, clientVars>>

SpecStore == Init /\ [][StoreNext]_vars

\* The store with one caller that sends its requests one after the other, with
\* blank and overlong fields among them; the database answers every operation.
SerialNext ==
  \/ \E user \in SerialUsers, text \in SerialTexts :
       /\ posts < MaxSerialPosts
       /\ PostReject(1, user, text)
       /\ UNCHANGED <<hubVars, clientVars>>
  \/ \E user \in SerialUsers, text \in SerialTexts, rnd \in 1..MaxRand,
        dt \in 0..1, lag \in 0..1 :
       /\ posts < MaxSerialPosts
       /\ PostAccept(1, user, text, rnd, dt, lag)
       /\ UNCHANGED <<hubVars, clientVars>>
  \/ InsertOne(1) /\ UNCHANGED <<hubVars, clientVars>>
  \/ CountDocuments(1) /\ UNCHANGED <<hubVars, clientVars>>
  \/ FindOldest(1) /\ UNCHANGED <<hubVars, clientVars>>
  \/ DeleteMany(1) /\ UNCHANGED <<hubVars, clientVars>>
  \/ Respond201(1) /\ UNCHANGED <<hubVars, clientVars>>

SpecSerial == Init /\ [][SerialNext]_vars

SpecHub == Init /\ [][HubNext]_vars

\* The display name of client i.
Letters == <<"a", "b", "c", "d">>
DisplayNameOf(i) == <<Letters[i]>>

\* The frontend that is followed through its mount, its load, its listening
\* and the loss of its connection; the other frontends are followed as senders.
Watched == {1}

\* The hub's sockets of the watched frontends' connections, past and present.
WatchedSockets == Conns \ {sock[j] : j \in Clients \ Watched}

\* The collection as earlier runs of the service have left it in the database:
\* MAX_MESSAGES documents.
SeedRecords ==
  [k \in 1..MAX_MESSAGES |->
     [id |-> generateId(0, k), user |-> <<"z">>, text |-> <<"h", "i">>,
      timestamp |-> 0]]

\* The backend and the hub have started on that collection and the frontends
\* have mounted.
LiveInit ==
  /\ now = 0
  /\ collection = Range(SeedRecords)
  /\ pc = [h \in Handlers |-> "idle"]
  /\ request = [h \in Handlers |-> NoRequest]
  /\ message = [h \in Handlers |-> NoMessage]
  /\ total = [h \in Handlers |-> 0]
  /\ ids = [h \in Handlers |-> {}]
  /\ posts = 0
  /\ accepted = SeedRecords
  /\ storageFailed = FALSE
  /\ cleared = FALSE
  /\ HubInit
  /\ ClientInit

\* The frontends, the backend and the hub from the frontends' mount on; the
\* database answers every operation and the hub's sockets raise no 'error'.  A
\* connection ends at each of its two ends on its own, in either order, and the
\* hub accepts a socket whenever its handshake arrives, also after the frontend
\* has replaced it.
LiveNext ==
  \/ \E i \in Clients, rnd \in 1..MaxRand, dt \in 0..1, lag \in 0..1 :
       /\ posts < MaxLiveSends
       /\ HandleSend(i, <<"h", "i", " ">>, DisplayNameOf(i), rnd, dt, lag)
  \/ \E i \in Clients : InsertOne(i) /\ Awaiting(i)
  \/ \E i \in Clients : CountDocuments(i) /\ Awaiting(i)
  \/ \E i \in Clients : FindOldest(i) /\ Awaiting(i)
  \/ \E i \in Clients : DeleteMany(i) /\ Awaiting(i)
  \/ \E i \in Clients : Reply(i)
  \/ \E i \in Clients : SocketSend(i)
  \/ \E i \in Clients : ClientOpen(i)
  \/ \E i \in Watched : LoadQuery(i)
  \/ \E i \in Watched : LoadApply(i)
  \/ \E i \in Watched : ClientMessage(i)
  \/ \E i \in Watched : ClientClose(i)
  \/ \E i \in Watched : Unmount(i)
  \/ \E i \in Watched : Reconnect(i)
  \/ \E c \in Made : Connection(c) /\ UNCHANGED <<wire, storeVars, clientVars>>
  \/ \E c \in Conns : HubReceive(c)
  \/ \E c \in WatchedSockets : BeginClose(c) /\ UNCHANGED <<storeVars, clientVars>>
  \/ \E c \in WatchedSockets : OnClose(c) /\ UNCHANGED <<storeVars, clientVars>>

SpecLive == LiveInit /\ [][LiveNext]_vars

(***************************************************************************)
(* Claims about the store.                                                 *)
(***************************************************************************)
\* No POST handler is between its insertOne and its answer.
Quiescent == \A h \in Handlers : pc[h] = "idle"

\* C1: whenever a handler has finished its insertOne-then-trimMessages cycle and
\* is about to answer 201, the collection holds at most MAX_MESSAGES documents.
C1_BoundAtCompletion ==
  \A h \in Handlers : pc[h] = "respond" => Cardinality(collection) <= MAX_MESSAGES

\* The index sets of the n most recent documents of the log by timestamp
\* (equal timestamps may fall on either side).
NewestIndexSets(log, n) ==
  {I \in SUBSET (1..Len(log)) :
     /\ Cardinality(I) = Min(n, Len(log))
     /\ \A i \in I, j \in (1..Len(log)) \ I : log[j].timestamp <= log[i].timestamp}

\* C2: once all handlers have finished (no storage operation failed, nothing was
\* cleared), the surviving documents are exactly the MAX_MESSAGES most recent by
\* timestamp of all documents ever inserted, all of them when fewer were inserted.
C2_SurvivorsAreNewest ==
  (Quiescent /\ ~storageFailed /\ ~cleared) =>
     \E I \in NewestIndexSets(accepted, MAX_MESSAGES) :
        /\ collection = {accepted[i] : i \in I}
        /\ Cardinality(collection) = Cardinality(I)

\* C3: when no storage operation has failed, once every started handler has
\* finished its trimMessages call the collection holds at most MAX_MESSAGES
\* documents.
C3_EventualBound ==
  (Quiescent /\ ~storageFailed) => Cardinality(collection) <= MAX_MESSAGES

\* C3's case: more than MAX_MESSAGES documents were inserted and never cleared,
\* so the count did exceed MAX_MESSAGES, and all handlers have finished.
C3_Witness ==
  /\ Quiescent
  /\ ~storageFailed
  /\ ~cleared
  /\ Len(accepted) > MAX_MESSAGES
  /\ Cardinality(collection) <= MAX_MESSAGES

\* A field that is missing, empty, or empty once its white space is trimmed.
Blank(x) == Falsy(x) \/ (x.t = "string" /\ Trim(x.v) = <<>>)

\* C12: a POST /api/messages whose user or text is missing, empty or all white
\* space never gets past validation: no handler works on such a request.
C12_BlankRejected ==
  \A h \in Handlers :
    pc[h] # "idle" => ~Blank(request[h].user) /\ ~Blank(request[h].text)

\* C13: when a handler answers 500 ('Failed to store message.') its message is
\* not in the collection, whether insertOne or a later step of trimMessages
\* threw; when it answers 400 the collection is as it was; when it answers 201
\* its message was inserted.
C13_NoPartialApply ==
  [][\A h \in Handlers :
       /\ (pc[h] = "idle" /\ posts' = posts + 1 /\ pc'[h] = "idle") =>
            collection' = collection
       /\ (pc[h] = "insertOne" /\ pc'[h] = "idle") => collection' = collection
       /\ (pc[h] \in {"countDocuments", "findOldest", "deleteMany"}
             /\ pc'[h] = "idle") =>
            message[h] \notin collection'
       /\ (pc[h] = "respond" /\ pc'[h] = "idle") =>
            message[h] \in Range(accepted)]_vars

\* C14: when a POST /api/messages is answered 201 and no other request is
\* under way, a GET /api/messages that follows lists the posted record last.
C14_PostedIsLast ==
  \A h \in Handlers :
    (pc[h] = "respond" /\ \A g \in Handlers \ {h} : pc[g] = "idle") =>
       \A r \in GetMessages(collection) :
          r # <<>> /\ r[Len(r)] = mapMessage(message[h])

\* C15: whatever the collection holds, a trim pending or not, every answer of
\* GET /api/messages has at most MAX_MESSAGES records (all of them when the
\* collection holds no more), each a different document of the collection, none
\* older than a document left out, in ascending order of timestamp.
C15_ListBoundedRecentAscending ==
  \A r \in GetMessages(collection) :
    /\ Len(r) <= MAX_MESSAGES
    /\ Len(r) = Min(MAX_MESSAGES, Cardinality(collection))
    /\ \A i, j \in DOMAIN r : i < j => r[i].timestamp <= r[j].timestamp
    /\ \A i, j \in DOMAIN r : i # j => r[i].id # r[j].id
    /\ \A i \in DOMAIN r : \E d \in collection : mapMessage(d) = r[i]
    /\ \A d \in collection :
         (\A i \in DOMAIN r : r[i].id # d.id) =>
            \A i \in DOMAIN r : d.timestamp <= r[i].timestamp

\* C15's case: the collection holds more than MAX_MESSAGES documents of two
\* different timestamps while a handler's trim has counted and not yet deleted.
C15_Witness ==
  /\ Cardinality(collection) > MAX_MESSAGES
  /\ \E d, e \in collection : d.timestamp < e.timestamp
  /\ \E h \in Handlers : pc[h] \in {"findOldest", "deleteMany"}

\* C16: no two documents the store has ever accepted carry the same id.
C16_IdsUnique ==
  \A i, j \in DOMAIN accepted : i # j => accepted[i].id # accepted[j].id

\* stored is the first n code units of submitted, all of it when it is shorter.
FirstUnits(stored, submitted, n) ==
  /\ Len(stored) = IF Len(submitted) < n THEN Len(submitted) ELSE n
  /\ \A k \in 1..Len(stored) : stored[k] = submitted[k]

\* C17: the record of an accepted POST /api/messages has as user the first 50
\* code units of the submitted user and as text the first 500 code units of the
\* submitted text, and it is this record that is stored; so every stored record
\* has a user of at most 50 and a text of at most 500 code units.
C17_StoredIsTruncated ==
  /\ \A h \in Handlers :
       pc[h] # "idle" =>
         /\ FirstUnits(message[h].user, request[h].user.v, 50)
         /\ FirstUnits(message[h].text, request[h].text.v, 500)
         /\ pc[h] # "insertOne" => message[h] \in Range(accepted)
  /\ \A d \in Range(accepted) \cup collection :
       Len(d.user) <= 50 /\ Len(d.text) <= 500

\* C17's case: a request with a user of 51 and a text of 501 code units has been
\* stored, with a user of 50 and a text of 500 code units.
C17_Witness ==
  \E h \in Handlers :
    /\ pc[h] = "respond"
    /\ Len(request[h].user.v) = 51 /\ Len(request[h].text.v) = 501
    /\ message[h] \in collection
    /\ Len(message[h].user) = 50 /\ Len(message[h].text) = 500

(***************************************************************************)
(* Claims about the hub.                                                   *)
(***************************************************************************)
IsChat(e) == e.data.value.type = ChatType
ChatPayload(e) == e.data.value.payload
Members == Range(clients)
Position(c) == CHOOSE k \in DOMAIN clients : clients[k] = c

\* Socket d was sent the chat-message frame of 'message' event n.
GotRelay(d, n) == \E k \in DOMAIN inbox[d] : IsChat(inbox[d][k]) /\ inbox[d][k].ev = n

\* What every chat-message frame the hub has sent satisfies: its socket got the
\* frame of that event once, was registered before the event, the socket the
\* event came from got the same frame, and the payload is the received one.
C4_Delivered ==
  \A d \in Conns : \A k \in DOMAIN inbox[d] :
    LET e == inbox[d][k] IN
    IsChat(e) =>
      /\ \A k2 \in DOMAIN inbox[d] :
           (IsChat(inbox[d][k2]) /\ inbox[d][k2].ev = e.ev) => k2 = k
      /\ joinedAt[d] < e.ev
      /\ \E k3 \in DOMAIN inbox[e.from] :
           inbox[e.from][k3].ev = e.ev /\ inbox[e.from][k3].data = e.data
      /\ JSONparse(e.raw).ok
      /\ ChatPayload(e) = GetPayload(JSONparse(e.raw).value)

\* A broadcast sends one chat-message frame to each socket that is a member of
\* clients and open when it is called, and nothing to any other socket.
C4_Recipients ==
  relays' = relays + 1 =>
    \A d \in Conns :
      IF d \in Members /\ readyState[d] = "OPEN"
        THEN /\ Len(inbox'[d]) = Len(inbox[d]) + 1
             /\ SubSeq(inbox'[d], 1, Len(inbox[d])) = inbox[d]
             /\ IsChat(inbox'[d][Len(inbox'[d])])
             /\ inbox'[d][Len(inbox'[d])].ev = handled'
        ELSE inbox'[d] = inbox[d]

\* C4: the connections that receive the chat-message frame of a valid frame are
\* exactly those registered and open when broadcast is called, the originating
\* one included, each once and with the payload unchanged; a connection
\* registered after the call receives nothing of it.
C4_BroadcastReachesLiveSet == []C4_Delivered /\ [][C4_Recipients]_vars

\* C4's case: a frame was relayed to two sockets and a third was registered
\* only afterwards.
C4_Witness ==
  \E c, d, late \in Conns :
    /\ c # d
    /\ GotRelay(c, 1) /\ GotRelay(d, 1)
    /\ late \in Members /\ joinedAt[late] >= 1 /\ ~GotRelay(late, 1)

\* The store's append validation (index.js:51) of a frame's payload.
AppendValid(p) ==
  /\ p.t = "object"
  /\ {"user", "text"} \subseteq DOMAIN p
  /\ ~Falsy(p.user)
  /\ ~Falsy(p.text)

\* C5: a chat-message frame whose payload fails the store's append validation
\* is not delivered to any connection.
C5_OnlyValidRelayed ==
  \A d \in Conns : \A k \in DOMAIN inbox[d] :
    IsChat(inbox[d][k]) => AppendValid(ChatPayload(inbox[d][k]))

\* C6: a member that broadcast finds not open does not keep the frame from
\* any open member, and the handler completes.
C6_DeliveryContinues ==
  [][(relays' = relays + 1 /\ \E c \in Members : readyState[c] # "OPEN") =>
       /\ handled' = handled + 1
       /\ \A d \in Members :
            readyState[d] = "OPEN" =>
              /\ Len(inbox'[d]) = Len(inbox[d]) + 1
              /\ IsChat(inbox'[d][Len(inbox'[d])])]_vars

\* C6's case: c precedes d in clients, the latest broadcast found c closing and
\* skipped it, and d received the frame.
C6_Witness ==
  \E c, d \in Members :
    /\ Position(c) < Position(d)
    /\ readyState[c] = "CLOSING"
    /\ relays >= 1
    /\ joinedAt[c] < handled
    /\ ~GotRelay(c, handled)
    /\ GotRelay(d, handled)

\* C7: a member that broadcast finds not open is removed from clients by that
\* broadcast call, so it is not a member when the next broadcast starts.
C7_BroadcastUnregisters ==
  [][relays' = relays + 1 =>
       \A c \in Members : readyState[c] # "OPEN" => c \notin Members']_vars

\* C9 as stated: every member of clients has an open socket.
C9_MembersOpen == \A c \in Members : readyState[c] = "OPEN"

\* C9 amended: clients holds no socket whose 'close' or 'error' event has been
\* handled (none that is CLOSED, none that was removed before); a socket that
\* is CLOSING and awaits its 'close' event can still be a member.
C9_NoTerminatedMember ==
  \A c \in Conns :
    (readyState[c] \in {"NONE", "CLOSED"} \/ deleteCalls[c] > 0) => c \notin Members

\* C9's case: one socket is closed and gone from clients while another, closing,
\* is still a member.
C9_Witness ==
  \E c, d \in Conns :
    /\ readyState[c] = "CLOSED" /\ c \notin Members
    /\ readyState[d] = "CLOSING" /\ d \in Members

\* C10 as stated: clients.delete is called at most once for a socket.
C10_DeleteCalledOnce == \A c \in Conns : deleteCalls[c] <= 1

\* C10 amended: a socket becomes CLOSED once and for all; clients.delete is
\* called for it at most twice (by 'error' and by the 'close' that follows),
\* never after 'close', and only the first call changes clients.
C10_RemovedOnce ==
  [][\A c \in Conns :
       /\ readyState[c] = "CLOSED" =>
            readyState'[c] = "CLOSED" /\ deleteCalls'[c] = deleteCalls[c]
       /\ deleteCalls'[c] <= 2
       /\ (deleteCalls[c] >= 1 /\ deleteCalls'[c] # deleteCalls[c]) =>
            clients' = clients]_vars

\* C10's case: 'error' and then 'close' have both called clients.delete for c
\* while another socket is a member.
C10_Witness ==
  \E c \in Conns :
    /\ deleteCalls[c] = 2
    /\ readyState[c] = "CLOSED"
    /\ Members # {}

\* The memberships of socket c in a value of clients.
Memberships(set, c) == Cardinality({k \in DOMAIN set : set[k] = c})

\* C11: clients.add of a socket that is a member leaves it one membership and
\* the Set as it was; clients.delete of a socket that is absent leaves the Set
\* as it was (and returns, without throwing); each operation done twice gives
\* what it gives done once.
C11_MembershipIdempotent ==
  \A c \in Conns :
    /\ Memberships(SetAdd(clients, c), c) = 1
    /\ c \in Members => SetAdd(clients, c) = clients
    /\ SetAdd(SetAdd(clients, c), c) = SetAdd(clients, c)
    /\ c \notin Members => SetDelete(clients, c) = clients
    /\ SetDelete(SetDelete(clients, c), c) = SetDelete(clients, c)
    /\ Memberships(SetDelete(clients, c), c) = 0

\* C11's case: clients has two members, and a third socket is absent after
\* both its 'error' and its 'close' handler have called clients.delete.
C11_Witness ==
  \E c \in Conns :
    /\ Len(clients) = 2
    /\ c \notin Members
    /\ deleteCalls[c] = 2

IsError(e) == e.data.value.type = ErrorType
IsSystem(e) == e.data.value.type = SystemType

\* The text cannot be decoded as JSON, or its type is not "chat-message".
Undecodable(raw) ==
  ~JSONparse(raw).ok \/ GetType(JSONparse(raw).value) # ChatType

\* C18: the handling of a frame that cannot be decoded as JSON, or whose type
\* is not "chat-message", sends one error frame on the socket the frame came
\* from and nothing on any other socket, calls no broadcast and leaves clients
\* as it is.
C18_LocalErrorOnly ==
  [][(handled' = handled + 1 /\ Undecodable(received'.raw)) =>
       LET c == received'.socket IN
       /\ Len(inbox'[c]) = Len(inbox[c]) + 1
       /\ SubSeq(inbox'[c], 1, Len(inbox[c])) = inbox[c]
       /\ IsError(inbox'[c][Len(inbox'[c])])
       /\ \A d \in Conns \ {c} : inbox'[d] = inbox[d]
       /\ relays' = relays
       /\ clients' = clients]_vars

\* C18's case: a text that is not JSON, received from one of two open members,
\* was answered with one error frame on its socket.
C18_Witness ==
  /\ handled >= 1
  /\ ~JSONparse(received.raw).ok
  /\ IsError(inbox[received.socket][Len(inbox[received.socket])])
  /\ \E d \in Members \ {received.socket} :
       readyState[d] = "OPEN" /\ \A k \in DOMAIN inbox[d] : ~IsError(inbox[d][k])

\* C19: every chat-message frame the hub has sent carries a payload that is an
\* object with a string user and a string text.
C19_OnlyMessageObjectsRelayed ==
  \A d \in Conns : \A k \in DOMAIN inbox[d] :
    IsChat(inbox[d][k]) =>
      LET p == ChatPayload(inbox[d][k]) IN
      /\ p.t = "object"
      /\ {"user", "text"} \subseteq DOMAIN p
      /\ p.user.t = "string" /\ p.text.t = "string"

\* What holds of the frames sent on each socket: an accepted socket was sent the
\* welcome first and no second one, and a send to a socket that is not open
\* writes nothing.
C20_WelcomeFirst ==
  \A c \in Conns :
    /\ readyState[c] = "NONE" => inbox[c] = <<>>
    /\ readyState[c] # "NONE" =>
         /\ inbox[c] # <<>>
         /\ IsSystem(inbox[c][1])
         /\ \A k \in 2..Len(inbox[c]) : ~IsSystem(inbox[c][k])
    /\ readyState[c] # "OPEN" =>
         safeSend(readyState, inbox, c,
                  Frame(SystemType, Notice("Connected to the chat gateway.")),
                  [ev |-> handled, from |-> c, raw |-> NotJson]) = inbox

\* The 'connection' handler leaves its socket a member of clients.
C20_Registered ==
  \A c \in Conns :
    (readyState[c] = "NONE" /\ readyState'[c] # "NONE") => c \in Members'

\* C20: a connection is sent the welcome system-message once, at registration
\* and before any chat-message frame; safeSend sends nothing on a socket that is
\* not open, and the connection is registered whatever the send does.
C20_WelcomeOnce == []C20_WelcomeFirst /\ [][C20_Registered]_vars

\* C20's case: a socket was sent the welcome and then a chat-message frame, and
\* another socket was registered and greeted after that.
C20_Witness ==
  \E c, d \in Members :
    /\ Len(inbox[c]) >= 2
    /\ IsSystem(inbox[c][1]) /\ IsChat(inbox[c][2])
    /\ joinedAt[d] >= inbox[c][2].ev
    /\ IsSystem(inbox[d][1])

\* C22: whenever the hub sends on a socket, in broadcast or in safeSend, the
\* socket's readyState is OPEN at that moment; a member of clients that is
\* closing is sent nothing.
C22_SendsOnlyOnOpen ==
  [][\A d \in Conns :
       inbox'[d] # inbox[d] =>
         /\ readyState'[d] = "OPEN"
         /\ readyState[d] \in {"NONE", "OPEN"}]_vars

\* C22's case: a broadcast found two members closing, sent them nothing and
\* sent the frame to the open member.
C22_Witness ==
  \E c, d, e \in Members :
    /\ c # d
    /\ readyState[c] = "CLOSING" /\ readyState[d] = "CLOSING"
    /\ readyState[e] = "OPEN"
    /\ relays >= 1
    /\ GotRelay(e, handled) /\ ~GotRelay(c, handled) /\ ~GotRelay(d, handled)

\* C23: on every socket the chat-message frames lie in the order in which the
\* 'message' handler processed the frames they relay, so any two sockets that
\* were sent the same two frames were sent them in the same order; and one
\* broadcast's sends are one step, with no change of clients within it.
C23_OneOrder ==
  \A c \in Conns : \A k1, k2 \in DOMAIN inbox[c] :
    (k1 < k2 /\ IsChat(inbox[c][k1]) /\ IsChat(inbox[c][k2])) =>
       inbox[c][k1].ev < inbox[c][k2].ev

C23_LoopUndisturbed ==
  relays' # relays =>
    /\ relays' = relays + 1
    /\ clients' = clients
    /\ readyState' = readyState

C23_BroadcastsSerialized == []C23_OneOrder /\ [][C23_LoopUndisturbed]_vars

\* C23's case: two sockets were each sent the frames of two 'message' events
\* that came from different sockets.
C23_Witness ==
  \E c, d \in Conns :
    /\ c # d
    /\ GotRelay(c, 1) /\ GotRelay(c, 2) /\ GotRelay(d, 1) /\ GotRelay(d, 2)
    /\ \E k1, k2 \in DOMAIN inbox[c] :
         /\ inbox[c][k1].ev = 1 /\ inbox[c][k2].ev = 2
         /\ inbox[c][k1].from # inbox[c][k2].from

(***************************************************************************)
(* Claims about the relay of stored messages.                              *)
(***************************************************************************)
\* The place of the document with this id in the store's append sequence.
AppendIndex(id) == CHOOSE i \in DOMAIN accepted : accepted[i].id = id

\* C8: when A's append precedes B's append in the store, a connection that
\* receives both chat-message frames receives A's before B's.
C8_AppendOrderKept ==
  \A c \in Conns : \A k1, k2 \in DOMAIN inbox[c] :
    (k1 < k2 /\ IsChat(inbox[c][k1]) /\ IsChat(inbox[c][k2])) =>
      AppendIndex(ChatPayload(inbox[c][k1]).id)
        < AppendIndex(ChatPayload(inbox[c][k2]).id)

(***************************************************************************)
(* Claims about the frontend.                                              *)
(***************************************************************************)
\* The ids of the messages in client i's list.
ListedIds(i) == {messages[i][k].id : k \in DOMAIN messages[i]}

\* Nothing is under way that can still change client i's list: App is mounted,
\* no send of any client, no load, no frame on its way to the hub or to the
\* client's listener, and the client's socket is open at both ends.
Settled(i) ==
  /\ mounted[i]
  /\ \A j \in Clients : cpc[j] = "idle"
  /\ loadpc[i] = "done"
  /\ wsState[i] = "OPEN"
  /\ readyState[sock[i]] = "OPEN"
  /\ read[i] = Len(inbox[sock[i]])
  /\ \A c \in Conns : wire[c] # <<>> => readyState[c] # "OPEN"

\* C21: once a client that lost its connection has reconnected and nothing is
\* under way any more, its list holds the records of the window that
\* GET /api/messages answers with.
C21_CatchUpOnReconnect ==
  \A i \in Watched :
    (Settled(i) /\ sock[i] # i) =>
       \E r \in GetMessages(collection) :
          \A k \in DOMAIN r : r[k].id \in ListedIds(i)

\* C24: a chat message the 'message' listener has had is in the client's list
\* from then on, as long as App is mounted.
C24_HeardStaysListed ==
  \A i \in Clients : mounted[i] => heard[i] \subseteq ListedIds(i)

\* C25: once nothing is under way any more, every record that a client's
\* handleSend had saved is in that client's list.
C25_OwnMessageListed ==
  \A i \in Watched :
    Settled(i) =>
      \A k \in DOMAIN accepted :
        accepted[k].user = DisplayNameOf(i) => accepted[k].id \in ListedIds(i)

====
